---- MODULE Spec2Model ----
(***************************************************************************)
(* arrow-udf: conversion between Arrow arrays and Python objects           *)
(* (arrow-udf-python/src/pyarrow.rs), the scalar functions declared in     *)
(* arrow-udf/tests/tests.rs, and the signature registry and batch          *)
(* evaluator that expose them.                                             *)
(*                                                                         *)
(* Conventions.  Row indices are 0-based as in the Rust code; a TLA+       *)
(* sequence s holds row i at s[i + 1].  Text is a sequence of one-character*)
(* strings.  A Result is [st |-> "ok" | "err" | "panic", val |-> ...].     *)
(***************************************************************************)
EXTENDS Integers, Sequences, FiniteSets, TLC

VARIABLES
    data_type,   \* build_array's `data_type` argument
    values,      \* build_array's `values` argument (one Python object per row)
    built,       \* what build_array returned
    idx,         \* get_pyobject's `i` argument of the last call (-1: none yet)
    pyobj,       \* what the last get_pyobject call returned
    pc,          \* "start" | "built" | "failed" | "got" | "registry" | "eval" | "evaluated"
    registry,    \* the registered signatures, in registration order
    reg_result,  \* the outcome of the last register call
    lookup_args, \* <<name, provided_arg_types>> of the last lookup
    lookup_res,  \* what the last lookup returned
    sig,         \* the signature being evaluated
    batch,       \* the input batch: one column array per declared argument
    output       \* what evaluating `sig` over `batch` returned

vars == <<data_type, values, built, idx, pyobj, pc,
          registry, reg_result, lookup_args, lookup_res, sig, batch, output>>

codec_vars == <<data_type, values, built, idx, pyobj>>
registry_vars == <<registry, reg_result, lookup_args, lookup_res>>
eval_vars == <<sig, batch, output>>

\* Bound of the model: the number of rows of an input sequence or batch.
MaxRows == 3

\* Bound of the model: the number of register calls in a run.
MaxRegs == 3

(***************************************************************************)
(* Results                                                                 *)
(***************************************************************************)
Ok(x) == [st |-> "ok", val |-> x]
Err(e) == [st |-> "err", val |-> e]
Panic(e) == [st |-> "panic", val |-> e]
Nothing == [st |-> "none", val |-> "none"]

(***************************************************************************)
(* Python objects (PyObject).  k is the Python type, v its content.        *)
(***************************************************************************)
PyNone == [k |-> "none", v |-> <<>>]
PyBool(b) == [k |-> "bool", v |-> b]
PyInt(n) == [k |-> "int", v |-> n]
\* A float is fixed-point here: v counts quarters (v = 6 is 1.5).  An f64
\* holds every such value; an f32, with less precision, only the even ones.
PyFloat(q) == [k |-> "float", v |-> q]
PyStr(s) == [k |-> "str", v |-> s]
PyBytes(s) == [k |-> "bytes", v |-> s]
PyList(s) == [k |-> "list", v |-> s]
\* An instance with attributes: v maps each attribute name to its value.
PyStruct(attrs) == [k |-> "object", v |-> attrs]
\* decimal.Decimal: sign, coefficient and the number of fraction digits.
PyDecimal(neg, coeff, scale) == [k |-> "decimal", v |-> <<neg, coeff, scale>>]

is_none(pyobj_) == pyobj_.k = "none"

(***************************************************************************)
(* Arrow data types (DataType)                                             *)
(***************************************************************************)
Leaf(t) == [t |-> t]
List(inner) == [t |-> "List", inner |-> inner]
Field(name, dt) == [name |-> name, data_type |-> dt]
Struct(fields) == [t |-> "Struct", fields |-> fields]

IntTypes == {"Int8", "Int16", "Int32", "UInt8", "UInt16"}
FloatTypes == {"Float32", "Float64"}

\* The value range of each integer type (i64, u32 and u64 exceed TLC's integers).
IntMin(t) ==
    CASE t = "Int8" -> -(2^7)
      [] t = "Int16" -> -(2^15)
      [] t = "Int32" -> -2147483647 - 1
      [] t = "UInt8" -> 0
      [] t = "UInt16" -> 0

IntMax(t) ==
    CASE t = "Int8" -> 2^7 - 1
      [] t = "Int16" -> 2^15 - 1
      [] t = "Int32" -> 2147483647
      [] t = "UInt8" -> 2^8 - 1
      [] t = "UInt16" -> 2^16 - 1

(***************************************************************************)
(* Text helpers                                                            *)
(***************************************************************************)
DigitChars == <<"0", "1", "2", "3", "4", "5", "6", "7", "8", "9">>
IsDigit(c) == \E d \in 1..10 : DigitChars[d] = c
DigitVal(c) == (CHOOSE d \in 1..10 : DigitChars[d] = c) - 1

\* The decimal digits of a natural number, most significant first.
RECURSIVE NatToText(_)
NatToText(n) ==
    IF n < 10 THEN <<DigitChars[n + 1]>>
    ELSE NatToText(n \div 10) \o <<DigitChars[(n % 10) + 1]>>

\* The digits of -n for a negative n, computed without negating n (the
\* least i32 has no negation).
MagnitudeText(n) ==
    LET r == n % 10
        high == IF r = 0 THEN -(n \div 10) ELSE -(n \div 10) - 1
        last == IF r = 0 THEN 0 ELSE 10 - r
    IN  (IF high = 0 THEN <<>> ELSE NatToText(high)) \o <<DigitChars[last + 1]>>

IntToText(n) == IF n < 0 THEN <<"-">> \o MagnitudeText(n) ELSE NatToText(n)

\* The number a non-empty run of digits denotes.
RECURSIVE TextToNat(_)
TextToNat(s) ==
    IF Len(s) = 0 THEN 0
    ELSE 10 * TextToNat(SubSeq(s, 1, Len(s) - 1)) + DigitVal(s[Len(s)])

RECURSIVE Repeat(_, _)
Repeat(c, n) == IF n <= 0 THEN <<>> ELSE <<c>> \o Repeat(c, n - 1)

(***************************************************************************)
(* Conversions of the Python side: pyo3's FromPyObject / IntoPy, Python's  *)
(* str(), json.dumps / json.loads and decimal.Decimal, as the code calls   *)
(* them.                                                                   *)
(***************************************************************************)

\* f64 -> f32 (`as f32`): round to the nearest value an f32 holds, ties to even.
RoundF32(q) ==
    IF q % 2 = 0 THEN q
    ELSE IF (q - 1) % 4 = 0 THEN q - 1 ELSE q + 1

\* Decimal.__float__: the nearest float, ties to even.
DecimalToFloat(d) ==
    LET neg == d[1]
        num == 4 * d[2]
        den == 10 ^ d[3]
        q == num \div den
        r == num % den
        m == IF 2 * r > den THEN q + 1
             ELSE IF 2 * r = den THEN q + (q % 2)
             ELSE q
    IN  IF neg THEN -m ELSE m

\* obj.extract::<f64>(): PyFloat_AsDouble takes a float, or anything with
\* __float__ or __index__.
extract_f64(obj) ==
    CASE obj.k = "float" -> Ok(obj.v)
      [] obj.k = "int" -> Ok(4 * obj.v)
      [] obj.k = "bool" -> Ok(IF obj.v THEN 4 ELSE 0)
      [] obj.k = "decimal" -> Ok(DecimalToFloat(obj.v))
      [] OTHER -> Err("TypeError")

\* obj.extract::<iN / uN>(): PyNumber_Index, then the range check of the type.
extract_int(t, obj) ==
    IF obj.k \in {"int", "bool"}
    THEN LET n == IF obj.k = "bool" THEN (IF obj.v THEN 1 ELSE 0) ELSE obj.v
         IN  IF IntMin(t) <= n /\ n <= IntMax(t) THEN Ok(n) ELSE Err("OverflowError")
    ELSE Err("TypeError")

\* pyobj.extract($py)? of build_array!: the native value of the builder's type.
extract(t, obj) ==
    CASE t = "Boolean" -> IF obj.k = "bool" THEN Ok(obj.v) ELSE Err("TypeError")
      [] t \in IntTypes -> extract_int(t, obj)
      [] t = "Float64" -> extract_f64(obj)
      [] t = "Float32" ->
            LET r == extract_f64(obj)
            IN  IF r.st = "ok" THEN Ok(RoundF32(r.val)) ELSE r
      [] t = "Utf8" -> IF obj.k = "str" THEN Ok(obj.v) ELSE Err("TypeError")
      [] t = "Binary" -> IF obj.k = "bytes" THEN Ok(obj.v) ELSE Err("TypeError")

\* array.value(i).into_py(py) of get_pyobject!: the Python object of a native value.
into_py(t, x) ==
    CASE t = "Boolean" -> PyBool(x)
      [] t \in IntTypes -> PyInt(x)
      [] t \in FloatTypes -> PyFloat(x)
      [] t = "Utf8" -> PyStr(x)
      [] t = "Binary" -> PyBytes(x)

\* What a builder's append_null stores in the value slot of a null row.
DefaultValue(t) ==
    CASE t = "Boolean" -> FALSE
      [] t \in IntTypes \cup FloatTypes -> 0
      [] OTHER -> <<>>

\* float.__repr__ of a float given in quarters: 6 -> "1.5", -1 -> "-0.25".
FloatToText(q) ==
    LET a == IF q < 0 THEN -q ELSE q
        frac == CASE a % 4 = 0 -> <<"0">>
                  [] a % 4 = 1 -> <<"2", "5">>
                  [] a % 4 = 2 -> <<"5">>
                  [] a % 4 = 3 -> <<"7", "5">>
    IN  (IF q < 0 THEN <<"-">> ELSE <<>>) \o NatToText(a \div 4) \o <<".">> \o frac

\* Decimal.__str__ for a non-positive exponent: the coefficient's digits with
\* the point `scale` digits from the right, zero-padded on the left.
DecimalToText(d) ==
    LET ds == NatToText(d[2])
        scale == d[3]
        body == IF scale = 0 THEN ds
                ELSE IF Len(ds) > scale
                     THEN SubSeq(ds, 1, Len(ds) - scale) \o <<".">>
                          \o SubSeq(ds, Len(ds) - scale + 1, Len(ds))
                     ELSE <<"0", ".">> \o Repeat("0", scale - Len(ds)) \o ds
    IN  (IF d[1] THEN <<"-">> ELSE <<>>) \o body

\* val.to_string(): Python's str() of the object.  The texts of lists, bytes
\* and plain instances are not modelled; no such value is given to a decimal column.
to_string(obj) ==
    CASE obj.k = "none" -> <<"N", "o", "n", "e">>
      [] obj.k = "bool" -> IF obj.v THEN <<"T", "r", "u", "e">>
                           ELSE <<"F", "a", "l", "s", "e">>
      [] obj.k = "int" -> IntToText(obj.v)
      [] obj.k = "float" -> FloatToText(obj.v)
      [] obj.k = "str" -> obj.v
      [] obj.k = "decimal" -> DecimalToText(obj.v)

\* Position of the first "." of s, or 0.
PointAt(s) ==
    IF \E j \in 1..Len(s) : s[j] = "."
    THEN CHOOSE j \in 1..Len(s) : s[j] = "." /\ \A h \in 1..(j - 1) : s[h] # "."
    ELSE 0

\* decimal.Decimal(string) for the plain form [sign] digits [. digits]; any
\* other text raises InvalidOperation (exponents, NaN and Infinity are not modelled).
decimal_constructor(s) ==
    LET signed == Len(s) > 0 /\ s[1] \in {"-", "+"}
        neg == Len(s) > 0 /\ s[1] = "-"
        body == IF signed THEN SubSeq(s, 2, Len(s)) ELSE s
        p == PointAt(body)
        ip == IF p = 0 THEN body ELSE SubSeq(body, 1, p - 1)
        fp == IF p = 0 THEN <<>> ELSE SubSeq(body, p + 1, Len(body))
        digitsOnly(x) == \A j \in 1..Len(x) : IsDigit(x[j])
    IN  IF digitsOnly(ip) /\ digitsOnly(fp) /\ Len(ip) + Len(fp) > 0
        THEN Ok(PyDecimal(neg, TextToNat(ip \o fp), Len(fp)))
        ELSE Err("InvalidOperation")

\* json.dumps' text of a str: quoted, with `"` and `\` escaped.
RECURSIVE JsonEscape(_)
JsonEscape(s) ==
    IF Len(s) = 0 THEN <<>>
    ELSE (IF s[1] \in {"\"", "\\"} THEN <<"\\", s[1]>> ELSE <<s[1]>>)
         \o JsonEscape(Tail(s))

\* json.dumps(val): the JSON text, or TypeError for a value JSON cannot hold
\* (bytes, Decimal, an instance).  dicts are not modelled.
RECURSIVE json_dumps(_)
json_dumps(obj) ==
    CASE obj.k = "none" -> Ok(<<"n", "u", "l", "l">>)
      [] obj.k = "bool" -> Ok(IF obj.v THEN <<"t", "r", "u", "e">>
                              ELSE <<"f", "a", "l", "s", "e">>)
      [] obj.k = "int" -> Ok(IntToText(obj.v))
      [] obj.k = "float" -> Ok(FloatToText(obj.v))
      [] obj.k = "str" -> Ok(<<"\"">> \o JsonEscape(obj.v) \o <<"\"">>)
      [] obj.k = "list" ->
            LET parts == [j \in 1..Len(obj.v) |-> json_dumps(obj.v[j])]
                join[j \in 0..Len(parts)] ==
                    IF j = 0 THEN <<>>
                    ELSE join[j - 1] \o (IF j > 1 THEN <<",", " ">> ELSE <<>>)
                         \o parts[j].val
            IN  IF \E j \in 1..Len(parts) : parts[j].st # "ok"
                THEN Err("TypeError")
                ELSE Ok(<<"[">> \o join[Len(parts)] \o <<"]">>)
      [] OTHER -> Err("TypeError")

\* The JSON parser of json.loads.  A parse step returns
\* [ok, val, next]: the value read and the position after it.
Parsed(v, p) == [ok |-> TRUE, val |-> v, next |-> p]
NotParsed == [ok |-> FALSE, val |-> PyNone, next |-> 0]

RECURSIVE SkipSpace(_, _)
SkipSpace(s, p) == IF p <= Len(s) /\ s[p] = " " THEN SkipSpace(s, p + 1) ELSE p

\* The end of the run of digits that starts at p (p itself when there is none).
RECURSIVE DigitsEnd(_, _)
DigitsEnd(s, p) == IF p <= Len(s) /\ IsDigit(s[p]) THEN DigitsEnd(s, p + 1) ELSE p

JsonLiteral(s, p, word, v) ==
    IF p + Len(word) - 1 <= Len(s) /\ SubSeq(s, p, p + Len(word) - 1) = word
    THEN Parsed(v, p + Len(word))
    ELSE NotParsed

\* [-] digits [. digits]: an int without a fraction, a float with one.
JsonNumber(s, p) ==
    LET neg == s[p] = "-"
        a == IF neg THEN p + 1 ELSE p
        b == DigitsEnd(s, a)
        frac == b <= Len(s) /\ s[b] = "."
        c == IF frac THEN DigitsEnd(s, b + 1) ELSE b
        ip == TextToNat(SubSeq(s, a, b - 1))
        fp == SubSeq(s, b + 1, c - 1)
        q == 4 * ip + (4 * TextToNat(fp)) \div (10 ^ Len(fp))
    IN  IF b = a \/ (frac /\ c = b + 1) THEN NotParsed
        ELSE IF frac THEN Parsed(PyFloat(IF neg THEN -q ELSE q), c)
        ELSE Parsed(PyInt(IF neg THEN -ip ELSE ip), c)

\* The characters of a string up to its closing quote, escapes undone.
RECURSIVE JsonString(_, _, _)
JsonString(s, p, acc) ==
    IF p > Len(s) THEN NotParsed
    ELSE IF s[p] = "\"" THEN Parsed(PyStr(acc), p + 1)
    ELSE IF s[p] = "\\"
         THEN IF p + 1 <= Len(s) /\ s[p + 1] \in {"\"", "\\"}
              THEN JsonString(s, p + 2, Append(acc, s[p + 1]))
              ELSE NotParsed
    ELSE JsonString(s, p + 1, Append(acc, s[p]))

RECURSIVE JsonValue(_, _), JsonElements(_, _, _)
JsonValue(s, p) ==
    IF p > Len(s) THEN NotParsed
    ELSE CASE s[p] = "n" -> JsonLiteral(s, p, <<"n", "u", "l", "l">>, PyNone)
           [] s[p] = "t" -> JsonLiteral(s, p, <<"t", "r", "u", "e">>, PyBool(TRUE))
           [] s[p] = "f" -> JsonLiteral(s, p, <<"f", "a", "l", "s", "e">>, PyBool(FALSE))
           [] s[p] = "\"" -> JsonString(s, p + 1, <<>>)
           [] s[p] = "-" \/ IsDigit(s[p]) -> JsonNumber(s, p)
           [] s[p] = "[" ->
                 LET q == SkipSpace(s, p + 1)
                 IN  IF q <= Len(s) /\ s[q] = "]" THEN Parsed(PyList(<<>>), q + 1)
                     ELSE JsonElements(s, q, <<>>)
           [] OTHER -> NotParsed

\* The elements of an array from p on, after the elements `acc`, to its "]".
JsonElements(s, p, acc) ==
    LET e == JsonValue(s, p)
        q == SkipSpace(s, e.next)
    IN  IF ~e.ok \/ q > Len(s) THEN NotParsed
        ELSE IF s[q] = "]" THEN Parsed(PyList(Append(acc, e.val)), q + 1)
        ELSE IF s[q] = "," THEN JsonElements(s, SkipSpace(s, q + 1), Append(acc, e.val))
        ELSE NotParsed

\* json.loads(json_str)
json_loads(s) ==
    LET r == JsonValue(s, SkipSpace(s, 1))
    IN  IF r.ok /\ SkipSpace(s, r.next) = Len(s) + 1 THEN Ok(r.val)
        ELSE Err("JSONDecodeError")

\* array.len()? / array.iter()? of a list row: the elements Python iterates.
\* A str iterates as its characters, bytes as its integers; a value that is
\* not iterable raises TypeError.
iter(obj) ==
    CASE obj.k = "list" -> Ok(obj.v)
      [] obj.k = "str" -> Ok([j \in 1..Len(obj.v) |-> PyStr(<<obj.v[j]>>)])
      [] obj.k = "bytes" -> Ok([j \in 1..Len(obj.v) |-> PyInt(obj.v[j])])
      [] OTHER -> Err("TypeError")

\* val.getattr(name)?: the attribute, or AttributeError.
getattr(obj, name) ==
    IF obj.k = "object" /\ name \in DOMAIN obj.v THEN Ok(obj.v[name])
    ELSE Err("AttributeError")

(***************************************************************************)
(* Arrow arrays                                                            *)
(*   leaf:   [data_type, valid, vals]            valid[i + 1]: row i is set*)
(*   Null:   [data_type, len]                    no null buffer            *)
(*   List:   [data_type, offsets, child, valid]                            *)
(*   Struct: [data_type, len, cols, valid]                                 *)
(***************************************************************************)
LeafTypes == {"Boolean", "Utf8", "Binary", "LargeUtf8", "LargeBinary"}
                 \cup IntTypes \cup FloatTypes

len(array) ==
    CASE array.data_type.t = "Null" -> array.len
      [] array.data_type.t = "List" -> Len(array.offsets) - 1
      [] array.data_type.t = "Struct" -> array.len
      [] OTHER -> Len(array.vals)

\* array.is_null(i): what the null buffer says; a NullArray has no null buffer.
is_null(array, i) ==
    IF array.data_type.t = "Null" THEN FALSE ELSE ~array.valid[i + 1]

\* Whether row i holds no value: its null-buffer bit, and every row of a NullArray.
logical_null(array, i) ==
    array.data_type.t = "Null" \/ is_null(array, i)

\* ListArray::new(field, OffsetBuffer::new(offsets), values, Some(nulls)):
\* panics unless the offsets are non-negative and non-decreasing, end within
\* the child array and number one more than the null bits.
ListArray_new(dt, offsets, values_array, nulls) ==
    IF /\ Len(offsets) >= 1
       /\ offsets[1] >= 0
       /\ \A j \in 1..(Len(offsets) - 1) : offsets[j] <= offsets[j + 1]
       /\ offsets[Len(offsets)] <= len(values_array)
       /\ Len(nulls) = Len(offsets) - 1
       /\ values_array.data_type = dt.inner
    THEN Ok([data_type |-> dt, offsets |-> offsets,
             child |-> values_array, valid |-> nulls])
    ELSE Panic("ListArray::new")

\* StructArray::new(fields, arrays, Some(nulls)): the length is that of the
\* first column (0 without columns); panics unless every column and the null
\* bits have that length.
StructArray_new(dt, arrays, nulls) ==
    LET n == IF Len(arrays) = 0 THEN 0 ELSE len(arrays[1])
    IN  IF /\ Len(arrays) = Len(dt.fields)
           /\ Len(nulls) = n
           /\ \A j \in 1..Len(arrays) :
                 /\ len(arrays[j]) = n
                 /\ arrays[j].data_type = dt.fields[j].data_type
        THEN Ok([data_type |-> dt, len |-> n, cols |-> arrays, valid |-> nulls])
        ELSE Panic("StructArray::new")

(***************************************************************************)
(* build_array: Python objects -> array                                    *)
(***************************************************************************)

\* The decimal loop taken for a copy of the json loop.
append_value_decimal_as_json(t, obj) ==
    CASE t \in {"LargeUtf8", "LargeBinary"} -> json_dumps(obj)
      [] OTHER -> extract(t, obj)

\* The value a leaf builder appends for a non-None object: the extracted
\* native value, json.dumps' text (json) or str()'s text (decimal).
append_value(t, obj) ==
    CASE t = "LargeUtf8" -> json_dumps(obj)
      [] t = "LargeBinary" -> Ok(to_string(obj))
      [] OTHER -> extract(t, obj)

\* The builder loop with a failed conversion stored as a null row.
RECURSIVE append_loop_lenient(_, _, _)
append_loop_lenient(t, pyobjects, n) ==
    IF n = 0 THEN Ok([valid |-> <<>>, vals |-> <<>>])
    ELSE LET b == append_loop_lenient(t, pyobjects, n - 1)
             obj == pyobjects[n]
             x == append_value(t, obj)
         IN  IF is_none(obj) \/ x.st # "ok"
             THEN Ok([valid |-> Append(b.val.valid, FALSE),
                      vals |-> Append(b.val.vals, DefaultValue(t))])
             ELSE Ok([valid |-> Append(b.val.valid, TRUE),
                      vals |-> Append(b.val.vals, x.val)])

\* The builder loop over pyobjects[1..n]: the builder's null bits and values,
\* or the first conversion error (`?` returns it at once).
RECURSIVE append_loop(_, _, _)
append_loop(t, pyobjects, n) ==
    IF n = 0 THEN Ok([valid |-> <<>>, vals |-> <<>>])
    ELSE LET b == append_loop(t, pyobjects, n - 1)
             obj == pyobjects[n]
             x == append_value(t, obj)
         IN  IF b.st # "ok" THEN b
             ELSE IF is_none(obj)
                  THEN Ok([valid |-> Append(b.val.valid, FALSE),
                           vals |-> Append(b.val.vals, DefaultValue(t))])
             ELSE IF x.st # "ok" THEN x
             ELSE Ok([valid |-> Append(b.val.valid, TRUE),
                      vals |-> Append(b.val.vals, x.val)])

\* The NullBuilder loop without its else branch: only None rows are counted.
build_null_nones_only(pyobjects) ==
    Ok([data_type |-> Leaf("Null"),
        len |-> Cardinality({j \in 1..Len(pyobjects) : is_none(pyobjects[j])})])

\* build_array!(NullBuilder, ..): append_null and append_empty_value both
\* only count the row.
build_null(pyobjects) ==
    Ok([data_type |-> Leaf("Null"), len |-> Len(pyobjects)])

\* build_array!(<builder>, ..) and the json and decimal loops.
build_leaf(dt, pyobjects) ==
    LET b == append_loop(dt.t, pyobjects, Len(pyobjects))
    IN  IF b.st # "ok" THEN b
        ELSE Ok([data_type |-> dt, valid |-> b.val.valid, vals |-> b.val.vals])

\* "flatten lists" with each row's offset pushed before its elements are.
RECURSIVE flatten_offset_first(_, _)
flatten_offset_first(values_, n) ==
    IF n = 0 THEN Ok([flatten_values |-> <<>>, offsets |-> <<0>>])
    ELSE LET f == flatten_offset_first(values_, n - 1)
             val == values_[n]
             elems == iter(val)
             offs == Append(f.val.offsets, Len(f.val.flatten_values))
         IN  IF f.st # "ok" THEN f
             ELSE IF is_none(val)
                  THEN Ok([flatten_values |-> f.val.flatten_values, offsets |-> offs])
             ELSE IF elems.st # "ok" THEN elems
             ELSE Ok([flatten_values |-> f.val.flatten_values \o elems.val,
                      offsets |-> offs])

\* "flatten lists": the elements of the rows values_[1..n] in one sequence,
\* and after each row the number of elements so far.
RECURSIVE flatten(_, _)
flatten(values_, n) ==
    IF n = 0 THEN Ok([flatten_values |-> <<>>, offsets |-> <<0>>])
    ELSE LET f == flatten(values_, n - 1)
             val == values_[n]
             elems == iter(val)
         IN  IF f.st # "ok" THEN f
             ELSE IF is_none(val)
                  THEN Ok([flatten_values |-> f.val.flatten_values,
                           offsets |-> Append(f.val.offsets,
                                              Len(f.val.flatten_values))])
             ELSE IF elems.st # "ok" THEN elems
             ELSE LET fv == f.val.flatten_values \o elems.val
                  IN  Ok([flatten_values |-> fv,
                          offsets |-> Append(f.val.offsets, Len(fv))])

\* A list array whose null bits mark the None rows as set.
list_nulls_inverted(values_) == [j \in 1..Len(values_) |-> is_none(values_[j])]

\* The null bits of a list array: row i is set unless it is None.
list_nulls(values_) == [j \in 1..Len(values_) |-> ~is_none(values_[j])]

\* A struct row marked null also when one of its attributes is None.
struct_nulls_from_fields(values_) ==
    [j \in 1..Len(values_) |->
        /\ ~is_none(values_[j])
        /\ values_[j].k = "object" =>
              \A name \in DOMAIN values_[j].v : ~is_none(values_[j].v[name])]

\* The null bits of a struct array: row i is set unless it is None.
struct_nulls(values_) == [j \in 1..Len(values_) |-> ~is_none(values_[j])]

\* Every row's attribute is read, a None row's too.
field_values_unguarded(name, values_) ==
    LET got == [j \in 1..Len(values_) |-> getattr(values_[j], name)]
    IN  IF \E j \in 1..Len(values_) : got[j].st # "ok"
        THEN Err("AttributeError")
        ELSE Ok([j \in 1..Len(values_) |-> got[j].val])

\* One field of every row: None for a None row, else the row's attribute.
field_values(name, values_) ==
    LET got == [j \in 1..Len(values_) |->
                   IF is_none(values_[j]) THEN Ok(PyNone)
                   ELSE getattr(values_[j], name)]
    IN  IF \E j \in 1..Len(values_) : got[j].st # "ok"
        THEN Err("AttributeError")
        ELSE Ok([j \in 1..Len(values_) |-> got[j].val])

RECURSIVE build_array(_, _)
build_array(dt, values_) ==
    CASE dt.t = "Null" -> build_null(values_)
      [] dt.t \in LeafTypes -> build_leaf(dt, values_)
      [] dt.t = "List" ->
            LET f == flatten(values_, Len(values_))
                values_array == build_array(dt.inner, f.val.flatten_values)
            IN  IF f.st # "ok" THEN f
                ELSE IF values_array.st # "ok" THEN values_array
                ELSE ListArray_new(dt, f.val.offsets, values_array.val,
                                   list_nulls(values_))
      [] dt.t = "Struct" ->
            LET fv == [j \in 1..Len(dt.fields) |->
                          field_values(dt.fields[j].name, values_)]
                arrays == [j \in 1..Len(dt.fields) |->
                              IF fv[j].st # "ok" THEN fv[j]
                              ELSE build_array(dt.fields[j].data_type, fv[j].val)]
                bad == {j \in 1..Len(dt.fields) : arrays[j].st # "ok"}
            IN  IF bad # {}
                THEN arrays[CHOOSE j \in bad : \A h \in bad : j <= h]
                ELSE StructArray_new(dt, [j \in 1..Len(dt.fields) |-> arrays[j].val],
                                     struct_nulls(values_))
      [] OTHER -> Panic("todo!()")

(***************************************************************************)
(* get_pyobject: array element -> Python object                            *)
(***************************************************************************)

\* The instance py.eval("Struct()") after object.setattr(name, value) for
\* each field in order: a later field of the same name replaces the earlier.
struct_object(fields, vals) ==
    PyStruct([name \in {fields[j].name : j \in 1..Len(fields)} |->
                 vals[CHOOSE j \in 1..Len(fields) :
                         /\ fields[j].name = name
                         /\ \A h \in (j + 1)..Len(fields) : fields[h].name # name]])

RECURSIVE get_pyobject(_, _)
get_pyobject(array, i) ==
    LET t == array.data_type.t
    IN  IF is_null(array, i) THEN Ok(PyNone)
        ELSE CASE t = "Null" -> Ok(PyNone)
               [] t = "LargeUtf8" -> json_loads(array.vals[i + 1])
               [] t = "LargeBinary" -> decimal_constructor(array.vals[i + 1])
               [] t \in LeafTypes -> Ok(into_py(t, array.vals[i + 1]))
               [] t = "List" ->
                     LET start == array.offsets[i + 1]
                         n == array.offsets[i + 2] - start
                         got == [j \in 1..n |-> get_pyobject(array.child, start + j - 1)]
                         bad == {j \in 1..n : got[j].st # "ok"}
                     IN  IF bad # {}
                         THEN got[CHOOSE j \in bad : \A h \in bad : j <= h]
                         ELSE Ok(PyList([j \in 1..n |-> got[j].val]))
               [] t = "Struct" ->
                     LET fields == array.data_type.fields
                         got == [j \in 1..Len(fields) |-> get_pyobject(array.cols[j], i)]
                         bad == {j \in 1..Len(fields) : got[j].st # "ok"}
                     IN  IF bad # {}
                         THEN got[CHOOSE j \in bad : \A h \in bad : j <= h]
                         ELSE Ok(struct_object(fields,
                                               [j \in 1..Len(fields) |-> got[j].val]))
               [] OTHER -> Panic("todo!()")

(***************************************************************************)
(* The inputs of the conversion: the data types exercised, and for each    *)
(* the Python objects a row may hold: None, values of the type, and values *)
(* of other types.                                                         *)
(***************************************************************************)
StructAB == Struct(<<Field("a", Leaf("Int32")), Field("b", Leaf("Utf8"))>>)
StructA == Struct(<<Field("a", Leaf("Int32"))>>)
StructL == Struct(<<Field("a", List(Leaf("Int32")))>>)
StructS == Struct(<<Field("s", StructA)>>)
StructEmpty == Struct(<<>>)

NestedIntTypes ==
    {List(Leaf("Int32")), List(List(Leaf("Int32"))), StructA, StructL, StructS,
     List(StructA)}

DataTypes ==
    {Leaf(t) : t \in LeafTypes \cup {"Null", "Date32"}}
        \cup NestedIntTypes
        \cup {List(Leaf("Utf8")), StructAB, StructEmpty}

\* The values of an integer type t tried as rows: its bounds and the
\* integers just outside them, where TLC's integers hold them.
IntRows(t) ==
    {PyInt(1), PyInt(IntMin(t)), PyInt(IntMax(t))}
        \cup (IF t = "Int32" THEN {PyInt(-5)}
              ELSE {PyInt(IntMin(t) - 1), PyInt(IntMax(t) + 1)})

Rows(dt) ==
    {PyNone} \cup
    CASE dt.t = "Null" -> {PyInt(1), PyStr(<<"x">>)}
      [] dt.t = "Date32" -> {PyInt(1)}
      [] dt.t = "Boolean" -> {PyBool(TRUE), PyBool(FALSE), PyInt(1), PyStr(<<"x">>)}
      [] dt.t \in IntTypes ->
            IntRows(dt.t) \cup {PyBool(TRUE), PyStr(<<"1">>), PyFloat(6)}
      [] dt.t = "Float32" ->
            {PyFloat(6), PyFloat(-2), PyFloat(1), PyInt(1), PyStr(<<"x">>)}
      [] dt.t = "Float64" ->
            {PyFloat(6), PyFloat(1), PyFloat(-3), PyInt(1),
             PyDecimal(FALSE, 15, 1), PyStr(<<"x">>)}
      [] dt.t = "Utf8" ->
            {PyStr(<<>>), PyStr(<<"a", "b">>), PyBytes(<<97>>), PyInt(1)}
      [] dt.t = "Binary" ->
            {PyBytes(<<>>), PyBytes(<<0, 255>>), PyStr(<<"a">>), PyInt(1)}
      [] dt.t = "LargeUtf8" ->
            {PyInt(-12), PyBool(TRUE), PyFloat(-5), PyStr(<<"a", "\"", "\\">>),
             PyList(<<PyInt(1), PyNone, PyStr(<<"x">>)>>),
             PyList(<<PyList(<<PyInt(10)>>), PyList(<<>>)>>),
             PyBytes(<<1>>), PyDecimal(FALSE, 15, 1)}
      [] dt.t = "LargeBinary" ->
            {PyDecimal(FALSE, 150, 2), PyDecimal(TRUE, 5, 2), PyDecimal(FALSE, 7, 0),
             PyDecimal(TRUE, 0, 0), PyInt(5), PyStr(<<"a", "b">>), PyFloat(6)}
      [] dt = List(Leaf("Int32")) ->
            {PyList(<<>>), PyList(<<PyInt(1), PyInt(2)>>),
             PyList(<<PyInt(3), PyNone>>), PyList(<<PyStr(<<"x">>)>>),
             PyInt(1), PyBytes(<<7>>)}
      [] dt = List(Leaf("Utf8")) ->
            {PyList(<<>>), PyList(<<PyStr(<<"a">>), PyNone>>),
             PyStr(<<"a", "b">>), PyList(<<PyInt(1)>>)}
      [] dt = List(List(Leaf("Int32"))) ->
            {PyList(<<>>),
             PyList(<<PyList(<<PyInt(1), PyInt(2)>>), PyNone, PyList(<<>>)>>),
             PyList(<<PyList(<<PyNone>>), PyList(<<PyInt(3)>>)>>),
             PyList(<<PyInt(1)>>)}
      [] dt = StructAB ->
            {PyStruct([a |-> PyInt(3), b |-> PyStr(<<"x">>)]),
             PyStruct([a |-> PyNone, b |-> PyStr(<<"y">>)]),
             PyStruct([a |-> PyInt(1), b |-> PyNone]),
             PyStruct([a |-> PyNone, b |-> PyNone]),
             PyStruct([a |-> PyStr(<<"x">>), b |-> PyStr(<<"x">>)]),
             PyStruct([a |-> PyInt(1)]),
             PyInt(1)}
      [] dt = StructA ->
            {PyStruct([a |-> PyInt(3)]), PyStruct([a |-> PyNone]),
             PyStruct([a |-> PyInt(1), z |-> PyInt(2)]), PyStruct([b |-> PyInt(1)])}
      [] dt = StructL ->
            {PyStruct([a |-> PyList(<<PyInt(1), PyInt(2)>>)]),
             PyStruct([a |-> PyNone]), PyStruct([a |-> PyList(<<>>)]),
             PyStruct([a |-> PyList(<<PyNone>>)]), PyStruct([a |-> PyInt(1)])}
      [] dt = StructS ->
            {PyStruct([s |-> PyStruct([a |-> PyInt(1)])]),
             PyStruct([s |-> PyNone]),
             PyStruct([s |-> PyStruct([a |-> PyNone])]),
             PyStruct([s |-> PyInt(1)])}
      [] dt = List(StructA) ->
            {PyList(<<>>),
             PyList(<<PyStruct([a |-> PyInt(1)]), PyNone, PyStruct([a |-> PyNone])>>),
             PyList(<<PyStruct([a |-> PyInt(2)])>>),
             PyList(<<PyInt(1)>>)}
      [] dt = StructEmpty -> {PyStruct(<<>>), PyInt(1)}

\* The sequences of at most n rows over the set S.
SeqsUpTo(S, n) == UNION {[1..m -> S] : m \in 0..n}

(***************************************************************************)
(* The conversion as a state machine: a caller builds an array from a      *)
(* sequence of Python objects, then reads rows of it back.                 *)
(***************************************************************************)
Idle ==
    /\ registry = <<>>
    /\ reg_result = "none"
    /\ lookup_args = <<>>
    /\ lookup_res = Nothing
    /\ sig = "none"
    /\ batch = <<>>
    /\ output = Nothing

Init ==
    /\ data_type \in DataTypes
    /\ values \in SeqsUpTo(Rows(data_type), MaxRows)
    /\ built = Nothing
    /\ idx = -1
    /\ pyobj = Nothing
    /\ pc = "start"
    /\ Idle

\* build_array(data_type, py, values)
BuildArray ==
    /\ pc = "start"
    /\ built' = build_array(data_type, values)
    /\ pc' = IF built'.st = "ok" THEN "built" ELSE "failed"
    /\ UNCHANGED <<data_type, values, idx, pyobj, registry_vars, eval_vars>>

\* get_pyobject(py, array, i) on the array built, for a row index i of it
GetPyobject(i) ==
    /\ pc \in {"built", "got"}
    /\ i \in 0..(len(built.val) - 1)
    /\ idx' = i
    /\ pyobj' = get_pyobject(built.val, i)
    /\ pc' = "got"
    /\ UNCHANGED <<data_type, values, built, registry_vars, eval_vars>>

Next ==
    \/ BuildArray
    \/ \E i \in 0..(MaxRows + 1) : GetPyobject(i)

Spec == Init /\ [][Next]_vars

(***************************************************************************)
(* The scalar functions of tests.rs and their signatures                   *)
(***************************************************************************)

\* A function signature: #[function("name(arg types) -> return type")].
Signature(name, arg_types, return_type, variadic, function) ==
    [name |-> name, arg_types |-> arg_types, return_type |-> return_type,
     variadic |-> variadic, function |-> function]

null_sig == Signature("null", <<>>, Leaf("Null"), FALSE, "null")
zero_sig == Signature("zero", <<>>, Leaf("Int32"), FALSE, "zero")
neg_int2_int2_sig ==
    Signature("neg", <<Leaf("Int16")>>, Leaf("Int16"), FALSE, "neg")
neg_int4_int4_sig ==
    Signature("neg", <<Leaf("Int32")>>, Leaf("Int32"), FALSE, "neg")
gcd_int4_int4_int4_sig ==
    Signature("gcd", <<Leaf("Int32"), Leaf("Int32")>>, Leaf("Int32"), FALSE, "gcd")
identity_boolean_boolean_sig ==
    Signature("identity", <<Leaf("Boolean")>>, Leaf("Boolean"), FALSE, "identity")
identity_varchar_varchar_sig ==
    Signature("identity", <<Leaf("Utf8")>>, Leaf("Utf8"), FALSE, "identity")
length_varchar_int4_sig ==
    Signature("length", <<Leaf("Utf8")>>, Leaf("Int32"), FALSE, "length")
length_bytea_int4_sig ==
    Signature("length", <<Leaf("Binary")>>, Leaf("Int32"), FALSE, "length")
to_string1_int4_varchar_sig ==
    Signature("to_string1", <<Leaf("Int32")>>, Leaf("Utf8"), FALSE, "to_string1")
to_string4_int4_varchar_sig ==
    Signature("to_string4", <<Leaf("Int32")>>, Leaf("Utf8"), FALSE, "to_string4")

\* fn neg written as the identity.
neg_unchanged(t, x, overflow_checks) == Ok(x)

\* fn neg<T: Neg<Output = T>>(x: T) -> T { x.neg() } at an integer type t.
\* Negating the least value overflows: a panic in a build with overflow
\* checks, the value itself (two's complement) in one without.
neg(t, x, overflow_checks) ==
    IF x = IntMin(t)
    THEN IF overflow_checks THEN Panic("attempt to negate with overflow") ELSE Ok(x)
    ELSE Ok(-x)

\* fn identity<T>(x: T) -> T
identity(x) == x

\* fn length(s: impl AsRef<[u8]>) -> i32: the number of bytes (the texts
\* modelled are ASCII, one byte a character).
length(s_) == Len(s_)

\* fn to_string1(x: i32) -> String
to_string1(x) == IntToText(x)

\* fn to_string4 without the conversion to usize: every x is written.
to_string4_always(x) == Ok(PyStr(IntToText(x)))

\* fn to_string4(x: i32, output) -> Option<()>: None, with nothing written,
\* when x is negative (usize::try_from(x).ok()?), else the digits of x.
to_string4(x) ==
    IF x < 0 THEN Ok(PyNone) ELSE Ok(PyStr(NatToText(x)))

\* fn zero() -> i32
zero == 0

(***************************************************************************)
(* The signature registry and the batch evaluator.  Their code is not in   *)
(* the files at hand (tests.rs only declares and calls the functions);     *)
(* they are modelled from their specification.                             *)
(***************************************************************************)

\* Whether signature s accepts the argument types given under the name given:
\* equal types position by position, a variadic signature taking any number
\* of trailing arguments of its last declared type.
match_args(s, name, provided) ==
    /\ s.name = name
    /\ IF s.variadic /\ Len(s.arg_types) > 0
       THEN LET k == Len(s.arg_types)
            IN  /\ Len(provided) >= k - 1
                /\ \A j \in 1..Len(provided) :
                      provided[j] = s.arg_types[IF j < k THEN j ELSE k]
       ELSE provided = s.arg_types

\* lookup that settles for the first signature that matches.
lookup_first_match(reg, name, provided) ==
    LET found == {j \in 1..Len(reg) : match_args(reg[j], name, provided)}
    IN  IF found = {} THEN Err("no matching signature")
        ELSE Ok(reg[CHOOSE j \in found : \A h \in found : j <= h])

\* lookup(name, provided_arg_types): the one signature that matches; an error
\* when none or more than one does.
lookup(reg, name, provided) ==
    LET found == {j \in 1..Len(reg) : match_args(reg[j], name, provided)}
    IN  IF found = {} THEN Err("no matching signature")
        ELSE IF Cardinality(found) > 1 THEN Err("ambiguous signature")
        ELSE Ok(reg[CHOOSE j \in found : TRUE])

\* Signatures offered for registration: those of tests.rs, a second function
\* declared as neg(int4), and a variadic and a two-argument concat.
neg_int4_other_sig ==
    Signature("neg", <<Leaf("Int32")>>, Leaf("Int32"), FALSE, "neg_other")
concat_variadic_sig ==
    Signature("concat", <<Leaf("Utf8")>>, Leaf("Utf8"), TRUE, "concat")
concat_two_sig ==
    Signature("concat", <<Leaf("Utf8"), Leaf("Utf8")>>, Leaf("Utf8"), FALSE, "concat2")

Registrable ==
    {neg_int2_int2_sig, neg_int4_int4_sig, neg_int4_other_sig,
     gcd_int4_int4_int4_sig, concat_variadic_sig, concat_two_sig}

LookupNames == {"neg", "gcd", "concat", "abs"}
LookupArgs ==
    {<<>>, <<Leaf("Int16")>>, <<Leaf("Int32")>>, <<Leaf("Int32"), Leaf("Int32")>>,
     <<Leaf("Utf8")>>, <<Leaf("Utf8"), Leaf("Utf8")>>}

SameKey(a, b) == a.name = b.name /\ a.arg_types = b.arg_types

CodecIdle ==
    /\ data_type = Leaf("Null")
    /\ values = <<>>
    /\ built = Nothing
    /\ idx = -1
    /\ pyobj = Nothing

RegistryInit ==
    /\ pc = "registry"
    /\ registry = <<>>
    /\ reg_result = "none"
    /\ lookup_args = <<>>
    /\ lookup_res = Nothing
    /\ sig = "none"
    /\ batch = <<>>
    /\ output = Nothing
    /\ CodecIdle

\* register(signature): the entry is added after those there, which stay as
\* they are.
Register(s) ==
    /\ Len(registry) < MaxRegs
    /\ registry' = Append(registry, s)
    /\ reg_result' = "registered"
    /\ lookup_args' = <<>>
    /\ lookup_res' = Nothing
    /\ UNCHANGED <<pc, codec_vars, eval_vars>>

\* register(signature) of a name and argument types already registered,
\* rejected: the registry stays as it is.
RegisterRejected(s) ==
    /\ Len(registry) < MaxRegs
    /\ \E j \in 1..Len(registry) : SameKey(registry[j], s)
    /\ reg_result' = "rejected"
    /\ lookup_args' = <<>>
    /\ lookup_res' = Nothing
    /\ UNCHANGED <<registry, pc, codec_vars, eval_vars>>

\* lookup(name, provided_arg_types)
Lookup(name, provided) ==
    /\ lookup_args' = <<name, provided>>
    /\ lookup_res' = lookup(registry, name, provided)
    /\ UNCHANGED <<registry, reg_result, pc, codec_vars, eval_vars>>

RegistryNext ==
    \/ \E s \in Registrable : Register(s)
    \/ \E s \in Registrable : RegisterRejected(s)
    \/ \E name \in LookupNames, provided \in LookupArgs : Lookup(name, provided)

SpecRegistry == RegistryInit /\ [][RegistryNext]_vars

\* A column of a batch: the array of the cells given, a cell being None or a
\* native value of the type.
Cell(x) == [null |-> FALSE, x |-> x]
NullCell(dt) == [null |-> TRUE, x |-> DefaultValue(dt.t)]
Column(dt, cells) ==
    [data_type |-> dt,
     valid |-> [j \in 1..Len(cells) |-> ~cells[j].null],
     vals |-> [j \in 1..Len(cells) |->
                  IF cells[j].null THEN DefaultValue(dt.t) ELSE cells[j].x]]

\* The per-row computation of a signature on the decoded arguments of one
\* row: its result, None for "no value".  A function whose parameters cannot
\* hold null is not called on a null argument; its row has no value.
row_result(s, args, overflow_checks) ==
    IF \E j \in 1..Len(args) : is_none(args[j]) THEN Ok(PyNone)
    ELSE CASE s.function = "null" -> Ok(PyNone)
           [] s.function = "zero" -> Ok(PyInt(zero))
           [] s.function = "neg" ->
                 LET r == neg(s.arg_types[1].t, args[1].v, overflow_checks)
                 IN  IF r.st = "ok" THEN Ok(PyInt(r.val)) ELSE r
           [] s.function = "identity" -> Ok(identity(args[1]))
           [] s.function = "length" -> Ok(PyInt(length(args[1].v)))
           [] s.function = "to_string1" -> Ok(PyStr(to_string1(args[1].v)))
           [] s.function = "to_string4" -> to_string4(args[1].v)

\* evaluate(signature, batch): each row's arguments decoded, the per-row
\* computation run on them, row by row in order, and the results encoded
\* against the return type; a failing row fails the evaluation.
evaluate(s, b, overflow_checks) ==
    LET args(i) == [j \in 1..Len(b.columns) |-> get_pyobject(b.columns[j], i).val]
        rows == [i \in 1..b.num_rows |-> row_result(s, args(i - 1), overflow_checks)]
        bad == {i \in 1..b.num_rows : rows[i].st # "ok"}
    IN  IF bad # {} THEN rows[CHOOSE i \in bad : \A h \in bad : i <= h]
        ELSE build_array(s.return_type, [i \in 1..b.num_rows |-> rows[i].val])

Evaluable ==
    {null_sig, zero_sig, neg_int2_int2_sig, neg_int4_int4_sig,
     identity_boolean_boolean_sig, identity_varchar_varchar_sig,
     length_varchar_int4_sig, length_bytea_int4_sig,
     to_string1_int4_varchar_sig, to_string4_int4_varchar_sig}

\* The cells of an argument column of type dt.
Cells(dt) ==
    {NullCell(dt)} \cup
    CASE dt.t \in IntTypes ->
            {Cell(1), Cell(-1), Cell(2), Cell(105), Cell(IntMin(dt.t))}
      [] dt.t = "Boolean" -> {Cell(TRUE), Cell(FALSE)}
      [] dt.t = "Utf8" -> {Cell(<<>>), Cell(<<"a", "b">>)}
      [] dt.t = "Binary" -> {Cell(<<>>), Cell(<<0, 255, 7>>)}

\* The batches a signature is evaluated over: one column per argument, of at
\* most MaxRows rows.
Batches(s) ==
    IF Len(s.arg_types) = 0
    THEN {[num_rows |-> n, columns |-> <<>>] : n \in 0..MaxRows}
    ELSE {[num_rows |-> Len(cells), columns |-> <<Column(s.arg_types[1], cells)>>] :
             cells \in SeqsUpTo(Cells(s.arg_types[1]), MaxRows)}

EvalInit ==
    /\ pc = "eval"
    /\ sig \in Evaluable
    /\ batch \in Batches(sig)
    /\ output = Nothing
    /\ registry = <<>>
    /\ reg_result = "none"
    /\ lookup_args = <<>>
    /\ lookup_res = Nothing
    /\ CodecIdle

\* sig.function.eval(&input), in a build with or without overflow checks
Evaluate ==
    /\ pc = "eval"
    /\ \E overflow_checks \in BOOLEAN :
          output' = evaluate(sig, batch, overflow_checks)
    /\ pc' = "evaluated"
    /\ UNCHANGED <<sig, batch, codec_vars, registry_vars>>

EvalNext == Evaluate

SpecEval == EvalInit /\ [][EvalNext]_vars

(***************************************************************************)
(* Properties of the conversion                                            *)
(***************************************************************************)
Built == pc \in {"built", "got"}
RowIndices == 0..(Len(values) - 1)

\* C1: null preservation.  A row the array marks as null is read back as
\* None, whatever the data type; and a None at position i of the values
\* given to build_array is a null row i of the array it returns.
C1_NullPreservation ==
    /\ pc = "got" /\ logical_null(built.val, idx) => pyobj = Ok(PyNone)
    /\ Built => \A i \in RowIndices :
                   is_none(values[i + 1]) => logical_null(built.val, i)

\* A None row of a list array, between rows that are set, was read back.
C1_Witness ==
    /\ pc = "got"
    /\ data_type.t = "List"
    /\ is_none(values[idx + 1])
    /\ \E i \in RowIndices : ~is_none(values[i + 1])
    /\ pyobj = Ok(PyNone)

\* C2: whenever build_array succeeds, the array it returns has as many rows
\* as the sequence of values it was given.
C2_LengthPreserved ==
    pc # "start" /\ built.st = "ok" => len(built.val) = Len(values)

\* A list array of MaxRows rows whose child array has another length, and a
\* Null array built from values that are not None.
C2_Witness ==
    /\ Built
    /\ Len(values) = MaxRows
    /\ \/ data_type.t = "List" /\ len(built.val.child) # Len(values)
       \/ data_type.t = "Null" /\ \A i \in RowIndices : ~is_none(values[i + 1])

\* Every list array an array holds: itself, and those of its child or columns.
RECURSIVE ListArrays(_)
ListArrays(array) ==
    CASE array.data_type.t = "List" -> {array} \cup ListArrays(array.child)
      [] array.data_type.t = "Struct" ->
            UNION {ListArrays(array.cols[j]) : j \in 1..Len(array.cols)}
      [] OTHER -> {}

OffsetsWellFormed(a) ==
    /\ Len(a.offsets) = Len(a.valid) + 1
    /\ a.offsets[1] = 0
    /\ \A j \in 1..Len(a.valid) : a.offsets[j] <= a.offsets[j + 1]
    /\ a.offsets[Len(a.offsets)] = len(a.child)
    /\ \A j \in 1..Len(a.valid) : ~a.valid[j] => a.offsets[j + 1] = a.offsets[j]

Scenario2Rows == <<PyList(<<PyInt(1), PyInt(2)>>), PyNone, PyList(<<>>)>>

\* C3: every list array build_array produces from N rows has N + 1 offsets
\* that start at 0, never decrease and end at the length of the child array,
\* a null row having the offset of the row before it; rows [[1,2], null, []]
\* give offsets [0,2,2,2], null rows [no, yes, no] and the child array [1,2].
C3_ListOffsets ==
    Built =>
        /\ data_type.t = "List" => Len(built.val.offsets) = Len(values) + 1
        /\ \A a \in ListArrays(built.val) : OffsetsWellFormed(a)
        /\ data_type = List(Leaf("Int32")) /\ values = Scenario2Rows =>
              /\ built.val.offsets = <<0, 2, 2, 2>>
              /\ built.val.valid = <<TRUE, FALSE, TRUE>>
              /\ built.val.child.vals = <<1, 2>>
              /\ built.val.child.valid = <<TRUE, TRUE>>

\* The rows [[1,2], null, []] were built into a list array.
C3_Witness ==
    /\ Built
    /\ data_type = List(Leaf("Int32"))
    /\ values = Scenario2Rows
    /\ built.val.offsets = <<0, 2, 2, 2>>

\* The values JSON holds: None, bool, int, float, str and lists of them.
RECURSIVE IsJson(_)
IsJson(obj) ==
    \/ obj.k \in {"none", "bool", "int", "float", "str"}
    \/ obj.k = "list" /\ \A j \in 1..Len(obj.v) : IsJson(obj.v[j])

\* obj is a non-null native value of the scalar type t.
Native(t, obj) ==
    CASE t = "Boolean" -> obj.k = "bool"
      [] t \in IntTypes -> obj.k = "int" /\ IntMin(t) <= obj.v /\ obj.v <= IntMax(t)
      [] t = "Float64" -> obj.k = "float"
      [] t = "Float32" -> obj.k = "float" /\ obj.v % 2 = 0
      [] t = "Utf8" -> obj.k = "str"
      [] t = "Binary" -> obj.k = "bytes"
      [] t = "LargeUtf8" -> ~is_none(obj) /\ IsJson(obj)
      [] t = "LargeBinary" -> obj.k = "decimal"
      [] OTHER -> FALSE

\* C4: scalar round trip.  For a scalar data type, build_array succeeds on
\* native values of the type (and None), and reading row i back gives a
\* value equal to the native value given for row i; in particular
\* get_pyobject(build_array(type, [v]), 0) = v.
C4_ScalarRoundTrip ==
    data_type.t \in LeafTypes =>
        /\ pc # "start"
             /\ (\A i \in RowIndices :
                    is_none(values[i + 1]) \/ Native(data_type.t, values[i + 1]))
             => built.st = "ok"
        /\ pc = "got" /\ Native(data_type.t, values[idx + 1])
             => pyobj = Ok(values[idx + 1])

\* A decimal with leading fraction zeros, alone in its array, was read back.
C4_Witness ==
    /\ pc = "got"
    /\ data_type = Leaf("LargeBinary")
    /\ values = <<PyDecimal(TRUE, 5, 2)>>
    /\ idx = 0
    /\ pyobj = Ok(PyDecimal(TRUE, 5, 2))

StructRowsOf(dt) == SeqsUpTo(Rows(dt), MaxRows)

Supported(dt) == dt.t # "Date32"

\* A value other than None that does not match the data type, at any depth.
\* Python's own conversions count as matching: a bool is an int, an int or a
\* Decimal is a float, and whatever prints as a decimal number is a decimal.
\* No value but None matches Null, only a list matches a list type, and only
\* an instance with the fields a struct type.
RECURSIVE Mismatch(_, _)
Mismatch(dt, obj) ==
    /\ ~is_none(obj)
    /\ CASE dt.t = "Null" -> TRUE
         [] dt.t = "Boolean" -> obj.k # "bool"
         [] dt.t \in IntTypes ->
               ~(obj.k \in {"int", "bool"} /\ extract_int(dt.t, obj).st = "ok")
         [] dt.t \in FloatTypes -> obj.k \notin {"float", "int", "bool", "decimal"}
         [] dt.t = "Utf8" -> obj.k # "str"
         [] dt.t = "Binary" -> obj.k # "bytes"
         [] dt.t = "LargeUtf8" -> ~IsJson(obj)
         [] dt.t = "LargeBinary" -> decimal_constructor(to_string(obj)).st # "ok"
         [] dt.t = "List" ->
               \/ obj.k # "list"
               \/ \E j \in 1..Len(obj.v) : Mismatch(dt.inner, obj.v[j])
         [] dt.t = "Struct" ->
               \/ obj.k # "object"
               \/ \E j \in 1..Len(dt.fields) :
                     \/ dt.fields[j].name \notin DOMAIN obj.v
                     \/ Mismatch(dt.fields[j].data_type, obj.v[dt.fields[j].name])

RECURSIVE Unconvertible(_, _)
Unconvertible(dt, obj) ==
    /\ ~is_none(obj)
    /\ CASE dt.t \in {"Null", "LargeBinary"} -> FALSE
         [] dt.t = "Boolean" -> obj.k # "bool"
         [] dt.t \in IntTypes ->
               \/ obj.k \notin {"int", "bool"}
               \/ obj.k = "int" /\ (obj.v < IntMin(dt.t) \/ obj.v > IntMax(dt.t))
         [] dt.t \in FloatTypes -> obj.k \notin {"float", "int", "bool", "decimal"}
         [] dt.t = "Utf8" -> obj.k # "str"
         [] dt.t = "Binary" -> obj.k # "bytes"
         [] dt.t = "LargeUtf8" -> ~IsJson(obj)
         [] dt.t = "List" ->
               \/ obj.k \notin {"list", "str", "bytes"}
               \/ \E j \in 1..Len(obj.v) : Unconvertible(dt.inner, iter(obj).val[j])
         [] dt.t = "Struct" ->
               \E j \in 1..Len(dt.fields) :
                   \/ obj.k # "object"
                   \/ dt.fields[j].name \notin DOMAIN obj.v
                   \/ Unconvertible(dt.fields[j].data_type,
                                    obj.v[dt.fields[j].name])

RECURSIVE Conforms(_, _)
Conforms(dt, obj) ==
    \/ is_none(obj)
    \/ CASE dt.t = "Int32" -> Native("Int32", obj)
         [] dt.t = "List" ->
               obj.k = "list" /\ \A j \in 1..Len(obj.v) : Conforms(dt.inner, obj.v[j])
         [] dt.t = "Struct" ->
               /\ obj.k = "object"
               /\ DOMAIN obj.v = {dt.fields[j].name : j \in 1..Len(dt.fields)}
               /\ \A j \in 1..Len(dt.fields) :
                     Conforms(dt.fields[j].data_type, obj.v[dt.fields[j].name])
         [] OTHER -> FALSE

\* C10: nested round trip.  For a list or struct type over integer leaves,
\* build_array succeeds on rows of the type's shape (None rows, empty lists
\* and None elements or fields included), and reading row i back gives
\* values[i]: the same elements in the same order, the same field values
\* under the same names, None for a None row.
C10_NestedRoundTrip ==
    data_type \in NestedIntTypes
        /\ (\A i \in RowIndices : Conforms(data_type, values[i + 1])) =>
            /\ pc # "start" => built.st = "ok"
            /\ pc = "got" => pyobj = Ok(values[idx + 1])

\* A list of lists with a None and an empty inner list was read back after
\* another row, and so from a non-zero offset.
C10_Witness ==
    /\ pc = "got"
    /\ data_type = List(List(Leaf("Int32")))
    /\ idx > 0
    /\ \E i \in 0..(idx - 1) : ~is_none(values[i + 1]) /\ Len(values[i + 1].v) > 0
    /\ values[idx + 1] =
          PyList(<<PyList(<<PyInt(1), PyInt(2)>>), PyNone, PyList(<<>>)>>)
    /\ pyobj = Ok(values[idx + 1])

(***************************************************************************)
(* Properties of the batch evaluator and the registry                      *)
(***************************************************************************)
Evaluated == pc = "evaluated"
OneArgument == Evaluated /\ Len(sig.arg_types) = 1
Input == batch.columns[1]

\* Whether the function of the signature makes a value of the native argument x.
HasValue(s, x) == ~(s.function = "to_string4" /\ x < 0)

\* What the function of the signature makes of the native argument x.
Expected(s, x) ==
    CASE s.function = "neg" -> IF x = IntMin(s.arg_types[1].t) THEN x ELSE 0 - x
      [] s.function = "identity" -> x
      [] s.function = "length" -> Len(x)
      [] s.function = "to_string1" -> IntToText(x)
      [] s.function = "to_string4" -> IntToText(x)

TestNegInput == Column(Leaf("Int32"), <<Cell(1), NullCell(Leaf("Int32"))>>)
TestNegExpected == Column(Leaf("Int32"), <<Cell(-1), NullCell(Leaf("Int32"))>>)

\* C7: evaluating a one-argument signature over a batch of N rows returns an
\* array of N rows of which row i is the function's result for input row i,
\* in input order, a null input row giving a null output row; neg(int4) over
\* [1, null] gives [-1, null].  (The evaluation fails only when a row's
\* computation does: neg of the least value, in a build that checks overflow.)
C7_RowWise ==
    OneArgument =>
        /\ output.st # "ok" =>
              /\ output.st = "panic"
              /\ sig.function = "neg"
              /\ \E i \in 0..(batch.num_rows - 1) :
                    ~is_null(Input, i) /\ Input.vals[i + 1] = IntMin(Input.data_type.t)
        /\ output.st = "ok" =>
              /\ len(output.val) = batch.num_rows
              /\ output.val.data_type = sig.return_type
              /\ \A i \in 0..(batch.num_rows - 1) :
                    IF is_null(Input, i) THEN is_null(output.val, i)
                    ELSE IF ~HasValue(sig, Input.vals[i + 1])
                         THEN is_null(output.val, i)
                         ELSE /\ ~is_null(output.val, i)
                              /\ output.val.vals[i + 1]
                                    = Expected(sig, Input.vals[i + 1])
        /\ sig = neg_int4_int4_sig /\ Input = TestNegInput
              => output = Ok(TestNegExpected)

\* neg(int4) was evaluated over [1, null] and returned [-1, null].
C7_Witness ==
    /\ Evaluated
    /\ sig = neg_int4_int4_sig
    /\ Input = TestNegInput
    /\ output = Ok(TestNegExpected)

\* Row i's computation signals "no value": to_string4 on a negative
\* argument, and null(), which returns nothing, on every row.
NoValue(i) ==
    \/ sig = null_sig
    \/ /\ sig = to_string4_int4_varchar_sig
       /\ ~is_null(Input, i)
       /\ Input.vals[i + 1] < 0

Scenario5Input == Column(Leaf("Int32"), <<Cell(1), Cell(-1), Cell(105)>>)

\* C9: a row whose computation signals "no value" is null in the output
\* array, whatever the return type, while every other row keeps its own
\* value, and the batch does not fail: to_string4 over [1, -1, 105] gives
\* ["1", null, "105"].
C9_NoValueIsNull ==
    Evaluated /\ sig \in {null_sig, to_string4_int4_varchar_sig} =>
        /\ output.st = "ok"
        /\ len(output.val) = batch.num_rows
        /\ \A i \in 0..(batch.num_rows - 1) :
              /\ NoValue(i) => logical_null(output.val, i)
              /\ sig = to_string4_int4_varchar_sig /\ ~NoValue(i) /\ ~is_null(Input, i)
                    => /\ ~is_null(output.val, i)
                       /\ TextToNat(output.val.vals[i + 1]) = Input.vals[i + 1]
        /\ sig = to_string4_int4_varchar_sig /\ Input = Scenario5Input
              => /\ output.val.valid = <<TRUE, FALSE, TRUE>>
                 /\ output.val.vals = <<<<"1">>, <<>>, <<"1", "0", "5">>>>

\* to_string4 was evaluated over [1, -1, 105]: the middle row is null, its
\* neighbours are not.
C9_Witness ==
    /\ Evaluated
    /\ sig = to_string4_int4_varchar_sig
    /\ Input = Scenario5Input
    /\ output.st = "ok"
    /\ output.val.valid = <<TRUE, FALSE, TRUE>>

\* The positions of the registered signatures that match a lookup.
Matching(name, provided) ==
    {j \in 1..Len(registry) : match_args(registry[j], name, provided)}

\* The registry in another order of registration.
Reordered ==
    {[j \in 1..Len(registry) |-> registry[p[j]]] :
        p \in {q \in [1..Len(registry) -> 1..Len(registry)] :
                  \A a, b \in 1..Len(registry) : a # b => q[a] # q[b]}}

C8_LookupOutcome ==
    /\ lookup_args # <<>> =>
          LET name == lookup_args[1]
              provided == lookup_args[2]
              m == Matching(name, provided)
          IN  /\ lookup_res.st \in {"ok", "err"}
              /\ lookup_res.st = "ok" <=> Cardinality(m) = 1
              /\ lookup_res.st = "ok" => \E j \in m : lookup_res.val = registry[j]
              /\ \A reg \in Reordered : lookup(reg, name, provided) = lookup_res
    /\ \A j \in 1..Len(registry) :
          LET s == registry[j]
              m == Matching(s.name, s.arg_types)
          IN  /\ j \in m
              /\ m = {j} => lookup(registry, s.name, s.arg_types) = Ok(s)
              /\ m # {j} => lookup(registry, s.name, s.arg_types).st = "err"

C8_EntriesKept ==
    /\ Len(registry') >= Len(registry)
    /\ \A j \in 1..Len(registry) : registry'[j] = registry[j]
    /\ reg_result' = "rejected" /\ reg_result # "rejected" => registry' = registry

\* C8: after any sequence of register operations, lookup returns a signature
\* only when exactly one registered signature matches, and fails when none or
\* more than one does; a signature registered under a name and argument
\* types already there never replaces the earlier one (every entry stays as
\* registered: the second is rejected, or both stay and the lookup is
\* ambiguous); signatures of one name and different argument types are each
\* found; and the outcome is the same for every order of registration.
C8_Registry == [](C8_LookupOutcome) /\ [][C8_EntriesKept]_vars

\* Three signatures named neg are registered, two of them as neg(int4); the
\* lookup of neg(int2) found its signature.
C8_Witness ==
    /\ Len(registry) = 3
    /\ \E j, h \in 1..3 : j # h /\ SameKey(registry[j], registry[h])
    /\ lookup_args = <<"neg", <<Leaf("Int16")>>>>
    /\ lookup_res = Ok(neg_int2_int2_sig)
====
